---- MODULE Spec2Model ----
(***************************************************************************)
(* Model of the recipe-collection engine of conzoad/pattern.               *)
(*   src/lab3.py : Recipe, RecipeMemento, RecipeManager, sort strategies,  *)
(*                 commands, validator chain, KeywordExpression            *)
(*   src/lab2.py : catalog RecipeManager, InMemoryRecipeRepository,        *)
(*                 ProtectedRecipe                                         *)
(* Strings are sequences of one-character strings; a character's code is   *)
(* its ASCII code, and str.lower() maps "A".."Z" to "a".."z".              *)
(***************************************************************************)
EXTENDS Integers, Sequences, FiniteSets, TLC

\* ------------------------------------------------------------------------
\* Bounds
\* ------------------------------------------------------------------------
MaxRecipes == 3
MaxObservers == 2

\* ------------------------------------------------------------------------
\* Strings
\* ------------------------------------------------------------------------
UpperCase == <<"A","B","C","D","E","F","G","H","I","J","K","L","M",
               "N","O","P","Q","R","S","T","U","V","W","X","Y","Z">>
LowerCase == <<"a","b","c","d","e","f","g","h","i","j","k","l","m",
               "n","o","p","q","r","s","t","u","v","w","x","y","z">>

IsUpper(c) == \E i \in 1..26 : UpperCase[i] = c
IsLower(c) == \E i \in 1..26 : LowerCase[i] = c
IsSpace(c) == c \in {" ", "\t", "\n"}

\* ord(c)
Code(c) ==
  IF IsUpper(c) THEN 64 + (CHOOSE i \in 1..26 : UpperCase[i] = c)
  ELSE IF IsLower(c) THEN 96 + (CHOOSE i \in 1..26 : LowerCase[i] = c)
  ELSE IF c = "\t" THEN 9
  ELSE IF c = "\n" THEN 10
  ELSE 32

\* str.lower(), one character
LowerChar(c) ==
  IF IsUpper(c) THEN LowerCase[CHOOSE i \in 1..26 : UpperCase[i] = c] ELSE c

\* str.lower()
lower(s) == [i \in 1..Len(s) |-> LowerChar(s[i])]

\* s < t on str: lexicographic by character code
StrLess(s, t) ==
  \E i \in 1..Len(t) :
    /\ i - 1 <= Len(s)
    /\ \A k \in 1..(i-1) : s[k] = t[k]
    /\ (i > Len(s) \/ Code(s[i]) < Code(t[i]))

\* sub in s on str
StrIn(sub, s) ==
  \E off \in 0..Len(s) :
    /\ off + Len(sub) <= Len(s)
    /\ \A k \in 1..Len(sub) : s[off + k] = sub[k]

\* str.strip(): drop leading and trailing whitespace
RECURSIVE lstrip(_)
lstrip(s) == IF s # <<>> /\ IsSpace(Head(s)) THEN lstrip(Tail(s)) ELSE s
RECURSIVE rstrip(_)
rstrip(s) ==
  IF s # <<>> /\ IsSpace(s[Len(s)]) THEN rstrip(SubSeq(s, 1, Len(s)-1)) ELSE s
strip(s) == rstrip(lstrip(s))

\* ------------------------------------------------------------------------
\* lab3.Recipe objects.  A recipe is identified by the object itself; the
\* pool names the objects and gives the fields they were constructed with.
\* ------------------------------------------------------------------------
RecipeIds == {"r1", "r2", "r3", "r4", "r5"}

Recipe ==
  [ r1 |-> [name |-> <<"a","p","p","l","e">>,
            ingredients |-> << <<"E","g","g">> >>,
            instructions |-> <<"x">>, preparation_time |-> 15],
    r2 |-> [name |-> <<"A","p","p","l","e">>,
            ingredients |-> << <<"s","a","l","t">> >>,
            instructions |-> <<"x">>, preparation_time |-> 15],
    r3 |-> [name |-> <<"Z","e","b","r","a">>,
            ingredients |-> << <<"O","a","t">>, <<"C","h","i","c","k","e","n">> >>,
            instructions |-> <<>>, preparation_time |-> 10],
    r4 |-> [name |-> <<"C","a","e","s","a","r">>,
            ingredients |-> << <<"L","e","t","t","u","c","e">>,
                               <<"C","h","i","c","k","e","n">> >>,
            instructions |-> <<"T">>, preparation_time |-> 15],
    r5 |-> [name |-> <<"C","a","r","b","o","n","a","r","a">>,
            ingredients |-> << <<"P","a","s","t","a">>,
                               <<"E","g","g","s">>,
                               <<"B","a","c","o","n">> >>,
            instructions |-> <<"B">>, preparation_time |-> 20] ]

\* ------------------------------------------------------------------------
\* list helpers (Python list semantics on object identity)
\* ------------------------------------------------------------------------
ListIn(x, xs) == \E i \in 1..Len(xs) : xs[i] = x

\* list.index(x), 1-based here; x must be in xs
ListIndex(xs, x) == CHOOSE i \in 1..Len(xs) :
                      xs[i] = x /\ \A j \in 1..(i-1) : xs[j] # x

\* list.remove(x): drops the first occurrence
ListRemove(xs, x) ==
  LET i == ListIndex(xs, x)
  IN  SubSeq(xs, 1, i-1) \o SubSeq(xs, i+1, Len(xs))

Count(xs, x) == Cardinality({i \in 1..Len(xs) : xs[i] = x})

\* ------------------------------------------------------------------------
\* Sort strategies
\* ------------------------------------------------------------------------
\* key=lambda r: r.name.lower()
SortByNameKeyLess ==
  [a \in RecipeIds, b \in RecipeIds |->
     StrLess(lower(Recipe[a].name), lower(Recipe[b].name))]

\* key=lambda r: (r.preparation_time, r.name.lower())
SortByPreparationTimeKeyLess ==
  [a \in RecipeIds, b \in RecipeIds |->
     \/ Recipe[a].preparation_time < Recipe[b].preparation_time
     \/ /\ Recipe[a].preparation_time = Recipe[b].preparation_time
        /\ StrLess(lower(Recipe[a].name), lower(Recipe[b].name))]

\* insert x behind every element whose key is not greater (stability)
RECURSIVE InsertStable(_, _, _)
InsertStable(xs, x, less) ==
  IF xs = <<>> THEN <<x>>
  ELSE IF less[x, Head(xs)] THEN <<x>> \o xs
  ELSE <<Head(xs)>> \o InsertStable(Tail(xs), x, less)

\* sorted(xs, key=...): a new list, stable
RECURSIVE sorted(_, _)
sorted(xs, less) ==
  IF xs = <<>> THEN <<>>
  ELSE InsertStable(sorted(SubSeq(xs, 1, Len(xs)-1), less), xs[Len(xs)], less)

SortByName_sort(recipes) == sorted(recipes, SortByNameKeyLess)

\* key=lambda r: r.preparation_time
TimeOnlyKeyLess ==
  [a \in RecipeIds, b \in RecipeIds |->
     Recipe[a].preparation_time < Recipe[b].preparation_time]

SortByPreparationTime_sort_time_only(recipes) == sorted(recipes, TimeOnlyKeyLess)

SortByPreparationTime_sort(recipes) == sorted(recipes, SortByPreparationTimeKeyLess)

Strategies == {"SortByName", "SortByPreparationTime"}

\* strategy.sort(recipes), dispatched on the strategy object's class
StrategySort(strategy, recipes) ==
  IF strategy = "SortByName" THEN SortByName_sort(recipes)
  ELSE SortByPreparationTime_sort(recipes)

\* ------------------------------------------------------------------------
\* State
\* ------------------------------------------------------------------------
VARIABLES
  recipes,        \* lab3 RecipeManager.recipes: list of Recipe objects
  observers,      \* lab3 RecipeManager.observers: list of observer objects
  sort_strategy,  \* lab3 RecipeManager.sort_strategy
  calls,          \* update() calls made by the last operation, in order
  result,         \* value returned by the last search / iteration
  raised,         \* exception that left the last operation, or "none"
  last,           \* the last operation, its arguments and the state before it
  cmd             \* the command object last executed, while nothing intervened

VARIABLES
  sort_input,     \* the list handed to a strategy's sort()
  sort_class,     \* the strategy class whose sort() ran last, or "none"
  sort_output     \* the list that sort() returned

VARIABLES
  v_chain,        \* validator chain, head first: the classes of the links
  v_recipe,       \* the recipe handed to validate(): name and ingredients
  v_evaluated,    \* the links whose validate() ran, in order
  v_error         \* message of the ValueError raised, or "none"

VARIABLES
  repository,     \* lab2 InMemoryRecipeRepository.recipes: ids saved
  proxy           \* the ProtectedRecipe last obtained and what its reads returned

VARIABLES
  heap,           \* the list objects: reference -> list of ingredients
  the_recipe,     \* the lab3 Recipe under edit; ingredients is a reference
  memento,        \* the RecipeMemento taken, or NoMemento
  taken,          \* the recipe's field values when the memento was taken
  m_last          \* the last operation on the recipe

VARIABLES
  factory_ingredients, \* lab2 IngredientFactory.ingredients: name -> instance
  created,             \* number of Ingredient objects constructed so far
  returned,            \* every (name, instance) a get_ingredient call returned
  loaded               \* the list the last JSONRecipeSource.get_recipes returned

VARIABLES
  selection,      \* lab3 MainWindow.listbox.curselection(): {} or {index}
  app_state       \* lab3 MainWindow.state: the class of the state object

managerVars == <<recipes, observers, sort_strategy, calls, result, last, cmd>>
sortVars == <<sort_input, sort_class, sort_output>>
validatorVars == <<v_chain, v_recipe, v_evaluated, v_error>>
catalogVars == <<repository, proxy>>
mementoVars == <<heap, the_recipe, memento, taken, m_last>>
factoryVars == <<factory_ingredients, created, returned, loaded>>
browsingVars == <<selection, app_state>>

vars == <<managerVars, raised, sortVars, validatorVars, catalogVars, mementoVars, factoryVars, browsingVars>>

ObserverIds == {"o1", "o2"}

\* the Recipe objects handed to the manager
ManagerRecipes == {"r1", "r2", "r3"}

Queries == { <<>>,
             <<"c","h","i","c","k","e","n">>,
             <<"E","G","G">>,
             <<"a","P">>,
             <<"q">> }

NoCmd == [kind |-> "none", phase |-> "none", recipe |-> "-", recipe2 |-> "-",
          pre |-> <<>>]

Op(name, r, r2, arg, q) ==
  [op |-> name, recipe |-> r, recipe2 |-> r2, arg |-> arg, query |-> q,
   pre |-> recipes, preStrategy |-> sort_strategy, preObservers |-> observers]

\* ------------------------------------------------------------------------
\* lab3 RecipeManager
\* ------------------------------------------------------------------------
\* RecipeIterator: __next__ until StopIteration
RECURSIVE RecipeIterator(_, _)
RecipeIterator(rs, index) ==
  IF index < Len(rs) THEN <<rs[index + 1]>> \o RecipeIterator(rs, index + 1)
  ELSE <<>>

\* notify_observers: observer.update() for each entry of the list, in order.
\* update() reads the collection through the iterator (MainWindow.update_list).
notify_observers(obs, rs) ==
  [i \in 1..Len(obs) |-> [observer |-> obs[i], saw |-> RecipeIterator(rs, 0)]]

sort_recipes_skipped(strategy, rs) == rs

\* sort_recipes: self.recipes = self.sort_strategy.sort(self.recipes.copy())
sort_recipes(strategy, rs) == StrategySort(strategy, rs)

add_recipe_notify_first(rs, strategy, obs, recipe) ==
  LET appended == Append(rs, recipe)
      resorted == sort_recipes(strategy, appended)
  IN  [recipes |-> resorted, calls |-> notify_observers(obs, appended)]

add_recipe(rs, strategy, obs, recipe) ==
  LET appended == Append(rs, recipe)
      resorted == sort_recipes(strategy, appended)
  IN  [recipes |-> resorted, calls |-> notify_observers(obs, resorted)]

remove_recipe(rs, strategy, obs, recipe) ==
  IF ListIn(recipe, rs)
  THEN LET removed == ListRemove(rs, recipe)
       IN  [recipes |-> removed, calls |-> notify_observers(obs, removed)]
  ELSE [recipes |-> rs, calls |-> <<>>]

update_recipe_every_occurrence(rs, strategy, obs, old_recipe, new_recipe) ==
  IF ListIn(old_recipe, rs)
  THEN LET replaced == [i \in 1..Len(rs) |->
                          IF rs[i] = old_recipe THEN new_recipe ELSE rs[i]]
           resorted == sort_recipes(strategy, replaced)
       IN  [recipes |-> resorted, calls |-> notify_observers(obs, resorted)]
  ELSE [recipes |-> rs, calls |-> <<>>]

update_recipe(rs, strategy, obs, old_recipe, new_recipe) ==
  IF ListIn(old_recipe, rs)
  THEN LET index    == ListIndex(rs, old_recipe)
           replaced == [rs EXCEPT ![index] = new_recipe]
           resorted == sort_recipes(strategy, replaced)
       IN  [recipes |-> resorted, calls |-> notify_observers(obs, resorted)]
  ELSE [recipes |-> rs, calls |-> <<>>]

set_sort_strategy(rs, obs, strategy) ==
  LET resorted == sort_recipes(strategy, rs)
  IN  [recipes |-> resorted, calls |-> notify_observers(obs, resorted)]

KeywordExpression_keeps_case(keyword) == keyword

\* KeywordExpression.__init__: self.keyword = keyword.lower()
KeywordExpression(keyword) == lower(keyword)

\* KeywordExpression.interpret
interpret(keyword, recipe) ==
  \/ StrIn(keyword, lower(Recipe[recipe].name))
  \/ \E i \in 1..Len(Recipe[recipe].ingredients) :
        StrIn(keyword, lower(Recipe[recipe].ingredients[i]))

RECURSIVE ListFilter(_, _)
ListFilter(rs, keyword) ==
  IF rs = <<>> THEN <<>>
  ELSE (IF interpret(keyword, Head(rs)) THEN <<Head(rs)>> ELSE <<>>)
       \o ListFilter(Tail(rs), keyword)

\* search_recipes: [r for r in self.recipes if expression.interpret(r)]
search_recipes(rs, query) == ListFilter(rs, KeywordExpression(query))

ManagerInit ==
  /\ recipes = <<>>
  /\ observers = <<>>
  /\ sort_strategy = "SortByName"
  /\ calls = <<>>
  /\ result = <<>>
  /\ raised = "none"
  /\ last = [op |-> "init", recipe |-> "-", recipe2 |-> "-", arg |-> "-",
             query |-> <<>>, pre |-> <<>>, preStrategy |-> "SortByName",
             preObservers |-> <<>>]
  /\ cmd = NoCmd

Effect(e) ==
  /\ recipes' = e.recipes
  /\ calls' = e.calls
  /\ raised' = "none"
  /\ result' = <<>>

AddRecipe(r) ==
  /\ Len(recipes) < MaxRecipes
  /\ Effect(add_recipe(recipes, sort_strategy, observers, r))
  /\ last' = Op("add_recipe", r, "-", "-", <<>>)
  /\ cmd' = NoCmd
  /\ UNCHANGED <<observers, sort_strategy, sortVars, validatorVars, catalogVars, mementoVars, factoryVars, browsingVars>>

RemoveRecipe(r) ==
  /\ Effect(remove_recipe(recipes, sort_strategy, observers, r))
  /\ last' = Op("remove_recipe", r, "-", "-", <<>>)
  /\ cmd' = NoCmd
  /\ UNCHANGED <<observers, sort_strategy, sortVars, validatorVars, catalogVars, mementoVars, factoryVars, browsingVars>>

UpdateRecipe(old, new) ==
  /\ Effect(update_recipe(recipes, sort_strategy, observers, old, new))
  /\ last' = Op("update_recipe", old, new, "-", <<>>)
  /\ cmd' = NoCmd
  /\ UNCHANGED <<observers, sort_strategy, sortVars, validatorVars, catalogVars, mementoVars, factoryVars, browsingVars>>

SetSortStrategy(s) ==
  /\ sort_strategy' = s
  /\ Effect(set_sort_strategy(recipes, observers, s))
  /\ last' = Op("set_sort_strategy", "-", "-", s, <<>>)
  /\ cmd' = NoCmd
  /\ UNCHANGED <<observers, sortVars, validatorVars, catalogVars, mementoVars, factoryVars, browsingVars>>

SearchRecipes(q) ==
  /\ result' = search_recipes(recipes, q)
  /\ calls' = <<>>
  /\ raised' = "none"
  /\ last' = Op("search_recipes", "-", "-", "-", q)
  /\ cmd' = NoCmd
  /\ UNCHANGED <<recipes, observers, sort_strategy, sortVars, validatorVars, catalogVars, mementoVars, factoryVars, browsingVars>>

\* for recipe in manager: ...
Iterate ==
  /\ result' = RecipeIterator(recipes, 0)
  /\ calls' = <<>>
  /\ raised' = "none"
  /\ last' = Op("iter", "-", "-", "-", <<>>)
  /\ cmd' = NoCmd
  /\ UNCHANGED <<recipes, observers, sort_strategy, sortVars, validatorVars, catalogVars, mementoVars, factoryVars, browsingVars>>

AddObserver(o) ==
  /\ Len(observers) < MaxObservers
  /\ observers' = Append(observers, o)
  /\ calls' = <<>>
  /\ raised' = "none"
  /\ result' = <<>>
  /\ last' = Op("add_observer", "-", "-", o, <<>>)
  /\ cmd' = NoCmd
  /\ UNCHANGED <<recipes, sort_strategy, sortVars, validatorVars, catalogVars, mementoVars, factoryVars, browsingVars>>

\* self.observers.remove(observer): list.remove raises ValueError when the
\* observer is not in the list
RemoveObserver(o) ==
  /\ IF ListIn(o, observers)
     THEN observers' = ListRemove(observers, o) /\ raised' = "none"
     ELSE observers' = observers /\ raised' = "ValueError"
  /\ calls' = <<>>
  /\ result' = <<>>
  /\ last' = Op("remove_observer", "-", "-", o, <<>>)
  /\ cmd' = NoCmd
  /\ UNCHANGED <<recipes, sort_strategy, sortVars, validatorVars, catalogVars, mementoVars, factoryVars, browsingVars>>

\* ------------------------------------------------------------------------
\* Commands
\* ------------------------------------------------------------------------
AddRecipeCommandExecute(r) ==
  /\ Len(recipes) < MaxRecipes
  /\ Effect(add_recipe(recipes, sort_strategy, observers, r))
  /\ last' = Op("add_recipe", r, "-", "-", <<>>)
  /\ cmd' = [kind |-> "add", phase |-> "executed", recipe |-> r,
             recipe2 |-> "-", pre |-> recipes]
  /\ UNCHANGED <<observers, sort_strategy, sortVars, validatorVars, catalogVars, mementoVars, factoryVars, browsingVars>>

AddRecipeCommandUndo ==
  /\ cmd.kind = "add" /\ cmd.phase = "executed"
  /\ Effect(remove_recipe(recipes, sort_strategy, observers, cmd.recipe))
  /\ last' = Op("remove_recipe", cmd.recipe, "-", "-", <<>>)
  /\ cmd' = [cmd EXCEPT !.phase = "undone"]
  /\ UNCHANGED <<observers, sort_strategy, sortVars, validatorVars, catalogVars, mementoVars, factoryVars, browsingVars>>

DeleteRecipeCommandExecute(r) ==
  /\ Effect(remove_recipe(recipes, sort_strategy, observers, r))
  /\ last' = Op("remove_recipe", r, "-", "-", <<>>)
  /\ cmd' = [kind |-> "delete", phase |-> "executed", recipe |-> r,
             recipe2 |-> "-", pre |-> recipes]
  /\ UNCHANGED <<observers, sort_strategy, sortVars, validatorVars, catalogVars, mementoVars, factoryVars, browsingVars>>

DeleteRecipeCommandUndo ==
  /\ cmd.kind = "delete" /\ cmd.phase = "executed"
  /\ Len(recipes) < MaxRecipes
  /\ Effect(add_recipe(recipes, sort_strategy, observers, cmd.recipe))
  /\ last' = Op("add_recipe", cmd.recipe, "-", "-", <<>>)
  /\ cmd' = [cmd EXCEPT !.phase = "undone"]
  /\ UNCHANGED <<observers, sort_strategy, sortVars, validatorVars, catalogVars, mementoVars, factoryVars, browsingVars>>

EditRecipeCommandExecute(old, new) ==
  /\ Effect(update_recipe(recipes, sort_strategy, observers, old, new))
  /\ last' = Op("update_recipe", old, new, "-", <<>>)
  /\ cmd' = [kind |-> "edit", phase |-> "executed", recipe |-> old,
             recipe2 |-> new, pre |-> recipes]
  /\ UNCHANGED <<observers, sort_strategy, sortVars, validatorVars, catalogVars, mementoVars, factoryVars, browsingVars>>

EditRecipeCommandUndo ==
  /\ cmd.kind = "edit" /\ cmd.phase = "executed"
  /\ Effect(update_recipe(recipes, sort_strategy, observers, cmd.recipe2, cmd.recipe))
  /\ last' = Op("update_recipe", cmd.recipe2, cmd.recipe, "-", <<>>)
  /\ cmd' = [cmd EXCEPT !.phase = "undone"]
  /\ UNCHANGED <<observers, sort_strategy, sortVars, validatorVars, catalogVars, mementoVars, factoryVars, browsingVars>>

Next ==
  \/ \E r \in ManagerRecipes : AddRecipe(r)
  \/ \E r \in ManagerRecipes : RemoveRecipe(r)
  \/ \E old \in ManagerRecipes, new \in ManagerRecipes : UpdateRecipe(old, new)
  \/ \E s \in Strategies : SetSortStrategy(s)
  \/ \E q \in Queries : SearchRecipes(q)
  \/ Iterate
  \/ \E o \in ObserverIds : AddObserver(o)
  \/ \E o \in ObserverIds : RemoveObserver(o)
  \/ \E r \in ManagerRecipes : AddRecipeCommandExecute(r)
  \/ AddRecipeCommandUndo
  \/ \E r \in ManagerRecipes : DeleteRecipeCommandExecute(r)
  \/ DeleteRecipeCommandUndo
  \/ \E old \in ManagerRecipes, new \in ManagerRecipes : EditRecipeCommandExecute(old, new)
  \/ EditRecipeCommandUndo

\* ------------------------------------------------------------------------
\* Sort strategies applied to arbitrary lists
\* ------------------------------------------------------------------------
MaxSortLen == 3

ListsOf(S, n) == UNION {[1..k -> S] : k \in 0..n}

SortIdle ==
  /\ sort_input = <<>>
  /\ sort_class = "none"
  /\ sort_output = <<>>

SortInit ==
  /\ sort_input \in ListsOf(RecipeIds, MaxSortLen)
  /\ sort_class = "none"
  /\ sort_output = <<>>

\* SortByName().sort(sort_input): sorted() builds a new list
SortByNameSort ==
  /\ sort_class = "none"
  /\ sort_output' = SortByName_sort(sort_input)
  /\ sort_class' = "SortByName"
  /\ UNCHANGED <<sort_input, managerVars, raised, validatorVars, catalogVars, mementoVars, factoryVars, browsingVars>>

\* SortByPreparationTime().sort(sort_input)
SortByPreparationTimeSort ==
  /\ sort_class = "none"
  /\ sort_output' = SortByPreparationTime_sort(sort_input)
  /\ sort_class' = "SortByPreparationTime"
  /\ UNCHANGED <<sort_input, managerVars, raised, validatorVars, catalogVars, mementoVars, factoryVars, browsingVars>>

\* the returned list is handed to a strategy again
SortAgain ==
  /\ sort_class # "none"
  /\ sort_input' = sort_output
  /\ sort_class' = "none"
  /\ sort_output' = <<>>
  /\ UNCHANGED <<managerVars, raised, validatorVars, catalogVars, mementoVars, factoryVars, browsingVars>>

SortNext == SortByNameSort \/ SortByPreparationTimeSort \/ SortAgain

\* ------------------------------------------------------------------------
\* Validator chain
\* ------------------------------------------------------------------------
MaxChain == 2

ValidatorClasses == {"Validator", "NameValidator", "IngredientsValidator"}

\* ValueError("Название обязательно")
NameRequired == "ValueError: Nazvanie obyazatelno"
\* ValueError("Ингредиенты обязательны")
IngredientsRequired == "ValueError: Ingredienty obyazatelny"

ValidatorNames == { <<>>, <<" ">>, <<" ", "\t">>, <<"a">>, <<" ", "a", " ">> }
ValidatorIngredients == { <<>>, << <<"x">> >>, << <<>> >> }

\* a link that forwards to its successor before checking its own rule
RECURSIVE validate_forwards_first(_, _)
validate_forwards_first(chain, rcp) ==
  IF chain = <<>> THEN [evaluated |-> <<>>, error |-> "none"]
  ELSE LET rest == validate_forwards_first(Tail(chain), rcp)
       IN  IF rest.error # "none"
           THEN [evaluated |-> <<Head(chain)>> \o rest.evaluated, error |-> rest.error]
           ELSE IF Head(chain) = "NameValidator" /\ strip(rcp.name) = <<>>
           THEN [evaluated |-> <<Head(chain)>> \o rest.evaluated, error |-> NameRequired]
           ELSE IF Head(chain) = "IngredientsValidator" /\ rcp.ingredients = <<>>
           THEN [evaluated |-> <<Head(chain)>> \o rest.evaluated,
                 error |-> IngredientsRequired]
           ELSE [evaluated |-> <<Head(chain)>> \o rest.evaluated, error |-> "none"]

\* validate() of the link at the head of the chain; chain = <<>> is next = None.
\* A link that raises ends the call; otherwise super().validate() forwards.
RECURSIVE validate(_, _)
validate(chain, rcp) ==
  IF chain = <<>> THEN [evaluated |-> <<>>, error |-> "none"]
  ELSE IF Head(chain) = "NameValidator" /\ strip(rcp.name) = <<>>
       THEN [evaluated |-> <<Head(chain)>>, error |-> NameRequired]
  ELSE IF Head(chain) = "IngredientsValidator" /\ rcp.ingredients = <<>>
       THEN [evaluated |-> <<Head(chain)>>, error |-> IngredientsRequired]
  ELSE LET rest == validate(Tail(chain), rcp)
       IN  [evaluated |-> <<Head(chain)>> \o rest.evaluated, error |-> rest.error]

ValidatorIdle ==
  /\ v_chain = <<>>
  /\ v_recipe = [name |-> <<>>, ingredients |-> <<>>]
  /\ v_evaluated = <<>>
  /\ v_error = "idle"

ValidatorInit ==
  /\ v_chain \in ListsOf(ValidatorClasses, MaxChain) \ {<<>>}
  /\ v_recipe \in [name : ValidatorNames, ingredients : ValidatorIngredients]
  /\ v_evaluated = <<>>
  /\ v_error = "idle"

\* validator.validate(recipe) on the head of the chain
Validate ==
  /\ v_error = "idle"
  /\ LET out == validate(v_chain, v_recipe)
     IN  v_evaluated' = out.evaluated /\ v_error' = out.error
  /\ UNCHANGED <<v_chain, v_recipe, managerVars, raised, sortVars, catalogVars, mementoVars, factoryVars, browsingVars>>

\* the same chain object is used for another recipe (the chain is stateless)
ValidateAnother(rcp) ==
  /\ v_error # "idle"
  /\ v_recipe' = rcp
  /\ LET out == validate(v_chain, rcp)
     IN  v_evaluated' = out.evaluated /\ v_error' = out.error
  /\ UNCHANGED <<v_chain, managerVars, raised, sortVars, catalogVars, mementoVars, factoryVars, browsingVars>>

ValidatorNext ==
  \/ Validate
  \/ \E rcp \in [name : ValidatorNames, ingredients : ValidatorIngredients] :
       ValidateAnother(rcp)

\* ------------------------------------------------------------------------
\* lab2: catalog RecipeManager, repository and ProtectedRecipe
\* ------------------------------------------------------------------------
\* Python None for an optional string; a string v is {v}
None == {}
Some(v) == {v}

CatalogIds == {"c1", "c2", "c3", "c4"}

\* lab2 Recipe objects by id: name, category, owner, components (Ingredients)
CatalogRecipe ==
  [ c1 |-> [name |-> "Salad", category |-> "General", owner |-> None,
            components |-> <<"Lettuce", "Chicken">>],
    c2 |-> [name |-> "Cake", category |-> "Dessert", owner |-> Some("alice"),
            components |-> <<"Flour", "Sugar">>],
    c3 |-> [name |-> "Soup", category |-> "General", owner |-> Some("bob"),
            components |-> <<"Salt">>],
    c4 |-> [name |-> "Pie", category |-> "Dessert", owner |-> Some("admin"),
            components |-> <<>>] ]

Users == {None, Some("alice"), Some("bob"), Some("admin"), Some("user1")}

\* "Доступ запрещен"
AccessDenied == <<"Dostup zapreshchen">>

\* Ingredient.get_description / get_ingredients
Ingredient_get_description(ing) == ing
Ingredient_get_ingredients(ing) == <<ing>>

\* text is the sequence of the pieces concatenated
RECURSIVE ComponentLines(_)
ComponentLines(components) ==
  IF components = <<>> THEN <<>>
  ELSE <<"- ", Ingredient_get_description(Head(components)), "\n">>
       \o ComponentLines(Tail(components))

\* Recipe.get_description
Recipe_get_description(id) ==
  <<CatalogRecipe[id].name, " (", CatalogRecipe[id].category, ")\n">>
  \o ComponentLines(CatalogRecipe[id].components)

\* Recipe.get_ingredients
RECURSIVE ExtendAll(_)
ExtendAll(components) ==
  IF components = <<>> THEN <<>>
  ELSE Ingredient_get_ingredients(Head(components)) \o ExtendAll(Tail(components))

Recipe_get_ingredients(id) == ExtendAll(CatalogRecipe[id].components)

has_access_owner_only(id, user) ==
  CatalogRecipe[id].owner = None \/ CatalogRecipe[id].owner = user

\* ProtectedRecipe.has_access
has_access(id, user) ==
  \/ CatalogRecipe[id].owner = None
  \/ CatalogRecipe[id].owner = user
  \/ user = Some("admin")

\* ProtectedRecipe.get_description
ProtectedRecipe_get_description(id, user) ==
  IF has_access(id, user) THEN Recipe_get_description(id) ELSE AccessDenied

\* ProtectedRecipe.get_ingredients
ProtectedRecipe_get_ingredients(id, user) ==
  IF has_access(id, user) THEN Recipe_get_ingredients(id) ELSE <<>>

NoProxy == [got |-> FALSE, id |-> "-", user |-> None, access |-> FALSE,
            description |-> <<>>, ingredients |-> <<>>]

CatalogInit ==
  /\ repository = {}
  /\ proxy = NoProxy

\* RecipeManager.add_recipe -> repository.save_recipe: recipes[recipe.id] = recipe
CatalogAddRecipe(id) ==
  /\ repository' = repository \cup {id}
  /\ proxy' = NoProxy
  /\ raised' = "none"
  /\ UNCHANGED <<managerVars, sortVars, validatorVars, mementoVars, factoryVars, browsingVars>>

\* RecipeManager.get_recipe, and the reads made through the proxy it returns
CatalogGetRecipe(id, user) ==
  /\ proxy' = IF id \in repository
              THEN [got |-> TRUE, id |-> id, user |-> user,
                    access |-> has_access(id, user),
                    description |-> ProtectedRecipe_get_description(id, user),
                    ingredients |-> ProtectedRecipe_get_ingredients(id, user)]
              ELSE NoProxy
  /\ raised' = "none"
  /\ UNCHANGED <<repository, managerVars, sortVars, validatorVars, mementoVars, factoryVars, browsingVars>>

\* RecipeManager.delete_recipe -> self.repository.delete_recipe(recipe_id):
\* InMemoryRecipeRepository defines no delete_recipe, the call raises
\* AttributeError whether or not the id is stored
CatalogDeleteRecipe(id) ==
  /\ raised' = "AttributeError"
  /\ proxy' = NoProxy
  /\ UNCHANGED <<repository, managerVars, sortVars, validatorVars, mementoVars, factoryVars, browsingVars>>

CatalogNext ==
  \/ \E id \in CatalogIds : CatalogAddRecipe(id)
  \/ \E id \in CatalogIds, user \in Users : CatalogGetRecipe(id, user)
  \/ \E id \in CatalogIds : CatalogDeleteRecipe(id)

\* ------------------------------------------------------------------------
\* Recipe and RecipeMemento.  Lists are objects: a field holds a reference
\* into heap, and an in-place change is seen through every reference.
\* ------------------------------------------------------------------------
MaxIngredients == 1

Refs == {"l1", "l2", "l3"}
FieldNames == {<<"n">>, <<"m">>}
FieldInstructions == {<<"i">>, <<"j">>}
FieldTimes == {0, 5}
FieldIngredients == {<<"a">>, <<"b">>}

NoMemento == [name |-> <<>>, ingredients |-> "-", instructions |-> <<>>,
              preparation_time |-> -1]

\* the four fields by value
Fields(obj, h) ==
  [name |-> obj.name, ingredients |-> h[obj.ingredients],
   instructions |-> obj.instructions, preparation_time |-> obj.preparation_time]

Live(obj, m) == {obj.ingredients} \cup (IF m = NoMemento THEN {} ELSE {m.ingredients})

\* list objects nothing refers to are collected
Collect(h, live) == [r \in Refs |-> IF r \in live THEN h[r] ELSE <<>>]

NewRef(live) == CHOOSE r \in Refs : r \notin live

\* Recipe.create_memento: RecipeMemento(self.name, self.ingredients, ...)
create_memento(obj) ==
  [name |-> obj.name, ingredients |-> obj.ingredients,
   instructions |-> obj.instructions, preparation_time |-> obj.preparation_time]

\* Recipe.restore_from_memento
restore_from_memento(obj, m) ==
  [name |-> m.name, ingredients |-> m.ingredients,
   instructions |-> m.instructions, preparation_time |-> m.preparation_time]

MementoIdle ==
  /\ heap = [r \in Refs |-> <<>>]
  /\ the_recipe = [name |-> <<>>, ingredients |-> "l1", instructions |-> <<>>,
               preparation_time |-> 0]
  /\ memento = NoMemento
  /\ taken = [name |-> <<>>, ingredients |-> <<>>, instructions |-> <<>>,
              preparation_time |-> 0]
  /\ m_last = "idle"

\* Recipe(name, ingredients, instructions, preparation_time)
MementoInit ==
  /\ \E l \in ListsOf(FieldIngredients, MaxIngredients) :
       heap = [r \in Refs |-> IF r = "l1" THEN l ELSE <<>>]
  /\ the_recipe \in [name : FieldNames, ingredients : {"l1"},
                 instructions : FieldInstructions, preparation_time : FieldTimes]
  /\ memento = NoMemento
  /\ taken = [name |-> <<>>, ingredients |-> <<>>, instructions |-> <<>>,
              preparation_time |-> 0]
  /\ m_last = "new"

MementoFrame ==
  UNCHANGED <<managerVars, raised, sortVars, validatorVars, catalogVars, factoryVars,
              browsingVars>>

\* memento = recipe.create_memento()
CreateMemento ==
  /\ memento' = create_memento(the_recipe)
  /\ taken' = Fields(the_recipe, heap)
  /\ heap' = Collect(heap, Live(the_recipe, memento'))
  /\ m_last' = "create_memento"
  /\ UNCHANGED the_recipe
  /\ MementoFrame

\* recipe.name = n
AssignName(n) ==
  /\ the_recipe' = [the_recipe EXCEPT !.name = n]
  /\ m_last' = "assign"
  /\ UNCHANGED <<heap, memento, taken>>
  /\ MementoFrame

\* recipe.instructions = t
AssignInstructions(t) ==
  /\ the_recipe' = [the_recipe EXCEPT !.instructions = t]
  /\ m_last' = "assign"
  /\ UNCHANGED <<heap, memento, taken>>
  /\ MementoFrame

\* recipe.preparation_time = t
AssignPreparationTime(t) ==
  /\ the_recipe' = [the_recipe EXCEPT !.preparation_time = t]
  /\ m_last' = "assign"
  /\ UNCHANGED <<heap, memento, taken>>
  /\ MementoFrame

\* recipe.ingredients = [...]: a new list object
AssignIngredients(l) ==
  /\ LET ref == NewRef(Live(the_recipe, memento))
     IN  /\ the_recipe' = [the_recipe EXCEPT !.ingredients = ref]
         /\ heap' = Collect([heap EXCEPT ![ref] = l], Live(the_recipe', memento))
  /\ m_last' = "assign"
  /\ UNCHANGED <<memento, taken>>
  /\ MementoFrame

\* recipe.ingredients.append(x): changes the list object in place
AppendIngredient(x) ==
  /\ Len(heap[the_recipe.ingredients]) < MaxIngredients
  /\ heap' = [heap EXCEPT ![the_recipe.ingredients] = Append(@, x)]
  /\ m_last' = "append"
  /\ UNCHANGED <<the_recipe, memento, taken>>
  /\ MementoFrame

\* recipe.ingredients.remove(x), x in the list: changes the list in place
RemoveIngredient(x) ==
  /\ ListIn(x, heap[the_recipe.ingredients])
  /\ heap' = [heap EXCEPT ![the_recipe.ingredients] = ListRemove(@, x)]
  /\ m_last' = "remove"
  /\ UNCHANGED <<the_recipe, memento, taken>>
  /\ MementoFrame

\* recipe.restore_from_memento(memento)
RestoreFromMemento ==
  /\ memento # NoMemento
  /\ the_recipe' = restore_from_memento(the_recipe, memento)
  /\ heap' = Collect(heap, Live(the_recipe', memento))
  /\ m_last' = "restore"
  /\ UNCHANGED <<memento, taken>>
  /\ MementoFrame

MementoNext ==
  \/ CreateMemento
  \/ \E n \in FieldNames : AssignName(n)
  \/ \E t \in FieldInstructions : AssignInstructions(t)
  \/ \E t \in FieldTimes : AssignPreparationTime(t)
  \/ \E l \in ListsOf(FieldIngredients, MaxIngredients) : AssignIngredients(l)
  \/ \E x \in FieldIngredients : AppendIngredient(x)
  \/ \E x \in FieldIngredients : RemoveIngredient(x)
  \/ RestoreFromMemento

\* ------------------------------------------------------------------------
\* lab2: IngredientFactory and JSONRecipeSource
\* ------------------------------------------------------------------------
MaxItems == 2
MaxInstances == 4

\* dict keys are compared as strings, case matters
IngredientNames == {"Salt", "salt", "Sugar"}

\* records of the JSON file: name, category (optional), ingredients (optional)
JsonItems ==
  { [name |-> "Cake", category |-> Some("Dessert"), ingredients |-> <<"Sugar", "Salt">>],
    [name |-> "Soup", category |-> None, ingredients |-> <<"Salt", "salt">>],
    [name |-> "Tea", category |-> None, ingredients |-> <<>>] }

JsonFiles ==
  {[exists |-> FALSE, data |-> <<>>]}
  \cup {[exists |-> TRUE, data |-> d] : d \in ListsOf(JsonItems, MaxItems)}

\* Ingredient(name): the k-th object constructed
Ingredient(k, name) == [obj |-> k, name |-> name]

Put(f, key, value) ==
  [n \in DOMAIN f \cup {key} |-> IF n = key THEN value ELSE f[n]]

\* a factory that constructs and stores an Ingredient on every call
get_ingredient_always_new(fac, name) ==
  LET made == Ingredient(fac.created + 1, name)
  IN  [ingredients |-> Put(fac.ingredients, name, made),
       created |-> fac.created + 1,
       returned |-> fac.returned \cup {<<name, made>>},
       value |-> made]

\* IngredientFactory.get_ingredient; fac carries the dict, the number of
\* objects constructed and the values returned so far
get_ingredient(fac, name) ==
  IF name \notin DOMAIN fac.ingredients
  THEN LET made == Ingredient(fac.created + 1, name)
       IN  [ingredients |-> Put(fac.ingredients, name, made),
            created |-> fac.created + 1,
            returned |-> fac.returned \cup {<<name, made>>},
            value |-> made]
  ELSE [ingredients |-> fac.ingredients,
        created |-> fac.created,
        returned |-> fac.returned \cup {<<name, fac.ingredients[name]>>},
        value |-> fac.ingredients[name]]

\* for ing_name in item.get('ingredients', []): recipe.add_component(...)
RECURSIVE AddComponents(_, _, _)
AddComponents(fac, names, components) ==
  IF names = <<>> THEN [fac |-> fac, components |-> components]
  ELSE LET got == get_ingredient(fac, Head(names))
       IN  AddComponents(got, Tail(names), Append(components, got.value))

\* for item in data: ... recipes.append(recipe)
RECURSIVE LoadItems(_, _, _)
LoadItems(fac, data, out) ==
  IF data = <<>> THEN [fac |-> fac, recipes |-> out]
  ELSE LET item  == Head(data)
           added == AddComponents(fac, item.ingredients, <<>>)
           made  == [name |-> item.name,
                     category |-> IF item.category = None THEN "General"
                                  ELSE CHOOSE c \in item.category : TRUE,
                     components |-> added.components]
       IN  LoadItems(added.fac, Tail(data), Append(out, made))

\* JSONRecipeSource.get_recipes: a missing file gives []
get_recipes(fac, file) ==
  IF ~file.exists THEN [fac |-> fac, recipes |-> <<>>]
  ELSE LoadItems(fac, file.data, <<>>)

Factory ==
  [ingredients |-> factory_ingredients, created |-> created, returned |-> returned]

\* IngredientFactory.__init__
FactoryInit ==
  /\ factory_ingredients = [n \in {} |-> 0]
  /\ created = 0
  /\ returned = {}
  /\ loaded = <<>>

FactoryFrame ==
  UNCHANGED <<managerVars, raised, sortVars, validatorVars, catalogVars, mementoVars,
              browsingVars>>

\* ingredient_factory.get_ingredient(name)
GetIngredient(name) ==
  /\ LET got == get_ingredient(Factory, name)
     IN  /\ got.created <= MaxInstances
         /\ factory_ingredients' = got.ingredients
         /\ created' = got.created
         /\ returned' = got.returned
  /\ UNCHANGED loaded
  /\ FactoryFrame

\* JSONRecipeSource(filename, ingredient_factory).get_recipes()
JSONGetRecipes(file) ==
  /\ LET got == get_recipes(Factory, file)
     IN  /\ got.fac.created <= MaxInstances
         /\ factory_ingredients' = got.fac.ingredients
         /\ created' = got.fac.created
         /\ returned' = got.fac.returned
         /\ loaded' = got.recipes
  /\ FactoryFrame

FactoryNext ==
  \/ \E name \in IngredientNames : GetIngredient(name)
  \/ \E file \in JsonFiles : JSONGetRecipes(file)

\* ------------------------------------------------------------------------
\* lab3: MainWindow and BrowsingState
\* ------------------------------------------------------------------------
\* the MainWindow, registered as observer in MainWindow.__init__
Window == "MainWindow"

\* what get_selected_recipe returns when nothing is selected: NullRecipe()
NullRecipe == "NullRecipe"

\* isinstance(x, NullRecipe)
IsNullRecipe(x) == x = NullRecipe

get_selected_recipe_or_first(sel, rs) ==
  IF sel # {} THEN rs[(CHOOSE i \in sel : TRUE) + 1]
  ELSE IF rs # <<>> THEN rs[1]
  ELSE NullRecipe

\* MainWindow.get_selected_recipe: index = selection[0]
get_selected_recipe(sel, rs) ==
  IF sel # {} THEN rs[(CHOOSE i \in sel : TRUE) + 1] ELSE NullRecipe

\* Recipe(...) built by a dialog is a new object, not one of the collection
NewRecipes(rs) == {r \in RecipeIds : ~ListIn(r, rs)}

\* no window, no dispatcher
BrowsingIdle ==
  /\ selection = {}
  /\ app_state = "none"

\* MainWindow.__init__: the window observes the manager, starts in
\* BrowsingState and adds the two sample recipes (Carbonara, then Caesar)
MainWindowInit ==
  /\ LET first  == add_recipe(<<>>, "SortByName", <<Window>>, "r5")
         second == add_recipe(first.recipes, "SortByName", <<Window>>, "r4")
     IN  /\ recipes = second.recipes
         /\ calls = second.calls
         /\ last = [op |-> "add_recipe", recipe |-> "r4", recipe2 |-> "-",
                    arg |-> "-", query |-> <<>>, pre |-> first.recipes,
                    preStrategy |-> "SortByName", preObservers |-> <<Window>>]
  /\ observers = <<Window>>
  /\ sort_strategy = "SortByName"
  /\ result = <<>>
  /\ raised = "none"
  /\ cmd = NoCmd
  /\ selection = {}
  /\ app_state = "BrowsingState"

BrowsingFrame ==
  UNCHANGED <<observers, app_state, sortVars, validatorVars, catalogVars, mementoVars,
              factoryVars>>

\* MainWindow.update -> update_list: listbox.delete(0, END) drops the
\* selection together with the entries whenever the window is notified
AfterNotify(notified) == IF notified # <<>> THEN {} ELSE selection

\* <<ListboxSelect>>: the user selects entry i; on_select only displays it
OnSelect(i) ==
  /\ i \in 0..(Len(recipes) - 1)
  /\ selection' = {i}
  /\ last' = Op("on_select", get_selected_recipe({i}, recipes), "-", {i}, <<>>)
  /\ calls' = <<>>
  /\ result' = <<>>
  /\ raised' = "none"
  /\ cmd' = NoCmd
  /\ UNCHANGED <<recipes, sort_strategy>>
  /\ BrowsingFrame

\* the dialog was closed without a saved recipe: add_dialog.result is None
HandleAddCancelled ==
  /\ app_state = "BrowsingState"
  /\ last' = Op("handle_add", "-", "-", selection, <<>>)
  /\ calls' = <<>>
  /\ result' = <<>>
  /\ raised' = "none"
  /\ cmd' = NoCmd
  /\ UNCHANGED <<recipes, sort_strategy, selection>>
  /\ BrowsingFrame

\* BrowsingState.handle_add with add_dialog.result = new
HandleAdd(new) ==
  /\ app_state = "BrowsingState"
  /\ new \in NewRecipes(recipes)
  /\ Len(recipes) < MaxRecipes
  /\ LET e == add_recipe(recipes, sort_strategy, observers, new)
     IN  Effect(e) /\ selection' = AfterNotify(e.calls)
  /\ last' = Op("handle_add", "-", new, selection, <<>>)
  /\ cmd' = [kind |-> "add", phase |-> "executed", recipe |-> new,
             recipe2 |-> "-", pre |-> recipes]
  /\ UNCHANGED sort_strategy
  /\ BrowsingFrame

\* BrowsingState.handle_edit; new is edit_dialog.result, "-" for None
HandleEdit(new) ==
  /\ app_state = "BrowsingState"
  /\ new \in NewRecipes(recipes) \cup {"-"}
  /\ LET selected_recipe == get_selected_recipe(selection, recipes)
     IN  /\ IsNullRecipe(selected_recipe) => new = "-"   \* no dialog is opened
         /\ last' = Op("handle_edit", selected_recipe, new, selection, <<>>)
         /\ IF ~IsNullRecipe(selected_recipe) /\ new # "-"
            THEN LET e == update_recipe(recipes, sort_strategy, observers,
                                        selected_recipe, new)
                 IN  /\ Effect(e)
                     /\ selection' = AfterNotify(e.calls)
                     /\ cmd' = [kind |-> "edit", phase |-> "executed",
                                recipe |-> selected_recipe, recipe2 |-> new,
                                pre |-> recipes]
            ELSE /\ calls' = <<>>
                 /\ result' = <<>>
                 /\ raised' = "none"
                 /\ cmd' = NoCmd
                 /\ UNCHANGED <<recipes, selection>>
  /\ UNCHANGED sort_strategy
  /\ BrowsingFrame

\* BrowsingState.handle_delete
HandleDelete ==
  /\ app_state = "BrowsingState"
  /\ LET selected_recipe == get_selected_recipe(selection, recipes)
     IN  /\ last' = Op("handle_delete", selected_recipe, "-", selection, <<>>)
         /\ IF ~IsNullRecipe(selected_recipe)
            THEN LET e == remove_recipe(recipes, sort_strategy, observers,
                                        selected_recipe)
                 IN  /\ Effect(e)
                     /\ selection' = AfterNotify(e.calls)
                     /\ cmd' = [kind |-> "delete", phase |-> "executed",
                                recipe |-> selected_recipe, recipe2 |-> "-",
                                pre |-> recipes]
            ELSE /\ calls' = <<>>
                 /\ result' = <<>>
                 /\ raised' = "none"
                 /\ cmd' = NoCmd
                 /\ UNCHANGED <<recipes, selection>>
  /\ UNCHANGED sort_strategy
  /\ BrowsingFrame

\* sort menu: self.manager.set_sort_strategy(...)
SortMenu(s) ==
  /\ sort_strategy' = s
  /\ LET e == set_sort_strategy(recipes, observers, s)
     IN  Effect(e) /\ selection' = AfterNotify(e.calls)
  /\ last' = Op("set_sort_strategy", "-", "-", s, <<>>)
  /\ cmd' = NoCmd
  /\ BrowsingFrame

BrowsingNext ==
  \/ \E i \in 0..(MaxRecipes - 1) : OnSelect(i)
  \/ HandleAddCancelled
  \/ \E new \in RecipeIds : HandleAdd(new)
  \/ \E new \in RecipeIds \cup {"-"} : HandleEdit(new)
  \/ HandleDelete
  \/ \E s \in Strategies : SortMenu(s)

Init == ManagerInit /\ SortIdle /\ ValidatorIdle /\ CatalogInit /\ MementoIdle /\ FactoryInit
  /\ BrowsingIdle

Spec == Init /\ [][Next]_vars

InitSort == ManagerInit /\ SortInit /\ ValidatorIdle /\ CatalogInit /\ MementoIdle /\ FactoryInit
  /\ BrowsingIdle

SpecSort == InitSort /\ [][SortNext]_vars

InitValidator == ManagerInit /\ SortIdle /\ ValidatorInit /\ CatalogInit /\ MementoIdle /\ FactoryInit
  /\ BrowsingIdle

SpecValidator == InitValidator /\ [][ValidatorNext]_vars

InitCatalog == ManagerInit /\ SortIdle /\ ValidatorIdle /\ CatalogInit /\ MementoIdle /\ FactoryInit
  /\ BrowsingIdle

SpecCatalog == InitCatalog /\ [][CatalogNext]_vars

InitMemento == ManagerInit /\ SortIdle /\ ValidatorIdle /\ CatalogInit /\ MementoInit /\ FactoryInit
  /\ BrowsingIdle

SpecMemento == InitMemento /\ [][MementoNext]_vars

InitFactory == ManagerInit /\ SortIdle /\ ValidatorIdle /\ CatalogInit /\ MementoIdle
  /\ FactoryInit /\ BrowsingIdle

SpecFactory == InitFactory /\ [][FactoryNext]_vars

InitBrowsing == MainWindowInit /\ SortIdle /\ ValidatorIdle /\ CatalogInit /\ MementoIdle
  /\ FactoryInit

SpecBrowsing == InitBrowsing /\ [][BrowsingNext]_vars

\* ------------------------------------------------------------------------
\* Properties of the Collection Manager
\* ------------------------------------------------------------------------
KeyLess(strategy) ==
  IF strategy = "SortByName" THEN SortByNameKeyLess ELSE SortByPreparationTimeKeyLess

\* no element is followed by one with a strictly smaller key
OrderedBy(strategy, rs) ==
  \A i \in 1..Len(rs), j \in 1..Len(rs) :
    i < j => ~KeyLess(strategy)[rs[j], rs[i]]

AddUndone == cmd.kind = "add" /\ cmd.phase = "undone"

\* C1: AddRecipeCommand.execute() followed immediately by undo() leaves the
\* collection with the same recipes in the same order as before execute,
\* also when the recipe, or one with an equal sort key, was already there.
C1_AddUndoRestores == AddUndone => recipes = cmd.pre

\* C2: after any sequence of add, remove, replace and set_sort_strategy the
\* collection is ordered by the active sort strategy; remove never breaks it.
C2_OrderedByActiveStrategy == OrderedBy(sort_strategy, recipes)

C2_Witness ==
  /\ last.op = "remove_recipe"
  /\ ListIn(last.recipe, last.pre)
  /\ Len(recipes) >= 2
  /\ sort_strategy = "SortByPreparationTime"
  /\ recipes # SortByName_sort(recipes)

\* C3: every manager operation is total: none raises for a target that is
\* not found or for an empty collection.
C3_NoOperationRaises == raised = "none"

\* the last operation changed the collection (or is one that always notifies)
Notifying ==
  \/ last.op \in {"add_recipe", "set_sort_strategy"}
  \/ last.op \in {"remove_recipe", "update_recipe"} /\ ListIn(last.recipe, last.pre)

CallsOn(o) == Cardinality({i \in 1..Len(calls) : calls[i].observer = o})

SawFinalOrderedCollection ==
  \A i \in 1..Len(calls) :
    calls[i].saw = recipes /\ OrderedBy(sort_strategy, calls[i].saw)

\* C4 as stated: every notifying operation calls update() exactly once on
\* each registered observer, after the mutation and the re-sort.
C4_ExactlyOncePerObserver ==
  Notifying =>
    /\ \A i \in 1..Len(observers) : CallsOn(observers[i]) = 1
    /\ SawFinalOrderedCollection

\* C4 amended: every notifying operation calls update() once per entry of the
\* observer list, in list order (an observer registered k times is called k
\* times), and every call sees the final, ordered collection.
C4_OncePerRegistration ==
  Notifying =>
    /\ Len(calls) = Len(observers)
    /\ \A i \in 1..Len(observers) : calls[i].observer = observers[i]
    /\ SawFinalOrderedCollection

C4_Witness ==
  /\ last.op = "add_recipe"
  /\ Len(observers) = 2 /\ observers[1] = observers[2]
  /\ Len(calls) = 2
  /\ Len(recipes) >= 2
  /\ recipes # Append(last.pre, last.recipe)

\* q is, ignoring case, a substring of s
MatchesIgnoringCase(q, s) ==
  \E off \in 0..Len(s) :
    /\ off + Len(q) <= Len(s)
    /\ \A k \in 1..Len(q) : LowerChar(q[k]) = LowerChar(s[off + k])

Matches(q, r) ==
  \/ MatchesIgnoringCase(q, Recipe[r].name)
  \/ \E i \in 1..Len(Recipe[r].ingredients) :
        MatchesIgnoringCase(q, Recipe[r].ingredients[i])

\* C5: search(query) returns exactly the recipes of the collection whose name
\* or some ingredient contains the query ignoring case, in collection order;
\* the empty query returns everything; the collection, its order and the
\* strategy are untouched and no observer is notified.
C5_SearchExact ==
  last.op = "search_recipes" =>
    /\ result = SelectSeq(recipes, LAMBDA r : Matches(last.query, r))
    /\ (last.query = <<>> => result = recipes)
    /\ recipes = last.pre
    /\ sort_strategy = last.preStrategy
    /\ calls = <<>>

C5_Witness ==
  /\ last.op = "search_recipes"
  /\ last.query = <<"E","G","G">>
  /\ Len(observers) > 0
  /\ Len(recipes) = 3
  /\ Len(result) = 2

\* C10 as stated: replace(old, new) with old present puts new in, drops
\* exactly one occurrence of old, keeps the length and every other recipe and
\* re-sorts; with old absent nothing changes and nobody is notified.
ReplaceAbsentIsNoOp ==
  /\ recipes = last.pre
  /\ sort_strategy = last.preStrategy
  /\ calls = <<>>

ReplaceKeepsTheOthers ==
  /\ ListIn(last.recipe2, recipes)
  /\ Len(recipes) = Len(last.pre)
  /\ \A r \in ManagerRecipes \ {last.recipe, last.recipe2} :
       Count(recipes, r) = Count(last.pre, r)
  /\ OrderedBy(sort_strategy, recipes)

C10_ReplaceDropsOneOld ==
  last.op = "update_recipe" =>
    IF ListIn(last.recipe, last.pre)
    THEN /\ ReplaceKeepsTheOthers
         /\ Count(recipes, last.recipe) = Count(last.pre, last.recipe) - 1
    ELSE ReplaceAbsentIsNoOp

\* C10 amended: as stated when new is a different recipe than old; when new
\* is old itself the collection is left exactly as it was.
C10_ReplaceAmended ==
  last.op = "update_recipe" =>
    IF ListIn(last.recipe, last.pre)
    THEN /\ ReplaceKeepsTheOthers
         /\ last.recipe2 # last.recipe =>
              /\ Count(recipes, last.recipe) = Count(last.pre, last.recipe) - 1
              /\ Count(recipes, last.recipe2) = Count(last.pre, last.recipe2) + 1
         /\ last.recipe2 = last.recipe => recipes = last.pre
    ELSE ReplaceAbsentIsNoOp

C10_Witness ==
  /\ last.op = "update_recipe"
  /\ Count(last.pre, last.recipe) = 2
  /\ last.recipe2 # last.recipe
  /\ Len(recipes) = 3
  /\ recipes[3] = last.recipe2
  /\ last.pre[3] # last.recipe

\* ------------------------------------------------------------------------
\* Properties of the validator chain
\* ------------------------------------------------------------------------
\* empty or whitespace only
Blank(str) == \A i \in 1..Len(str) : str[i] \in {" ", "\t", "\n"}

RuleFails(class, rcp) ==
  \/ class = "NameValidator" /\ Blank(rcp.name)
  \/ class = "IngredientsValidator" /\ Len(rcp.ingredients) = 0

ErrorOf(class) ==
  IF class = "NameValidator" THEN NameRequired ELSE IngredientsRequired

FirstFailing(i) ==
  /\ RuleFails(v_chain[i], v_recipe)
  /\ \A j \in 1..(i-1) : ~RuleFails(v_chain[j], v_recipe)

\* C6: validate() evaluates the links in chain order and stops at the first
\* link whose rule fails, raising that link's error; it succeeds only if
\* every link passes.  Name -> Ingredients on a blank name with no
\* ingredients raises the name-required error.
C6_FirstFailingLinkRaises ==
  v_error # "idle" =>
    /\ \A i \in 1..Len(v_chain) :
         FirstFailing(i) =>
           v_error = ErrorOf(v_chain[i]) /\ v_evaluated = SubSeq(v_chain, 1, i)
    /\ (\A i \in 1..Len(v_chain) : ~RuleFails(v_chain[i], v_recipe)) =>
         v_error = "none" /\ v_evaluated = v_chain
    /\ ( /\ v_chain = <<"NameValidator", "IngredientsValidator">>
         /\ Blank(v_recipe.name)
         /\ v_recipe.ingredients = <<>> ) => v_error = NameRequired

C6_Witness ==
  /\ v_chain = <<"NameValidator", "IngredientsValidator">>
  /\ v_recipe = [name |-> <<" ", "\t">>, ingredients |-> <<>>]
  /\ v_error = NameRequired
  /\ v_evaluated = <<"NameValidator">>

\* ------------------------------------------------------------------------
\* Properties of the access proxy
\* ------------------------------------------------------------------------
RecipeData(id) ==
  {CatalogRecipe[id].name, CatalogRecipe[id].category}
  \cup {CatalogRecipe[id].components[i] : i \in 1..Len(CatalogRecipe[id].components)}

Pieces(text) == {text[i] : i \in 1..Len(text)}

\* C7: has_access() is true iff the owner is null, or is the current user, or
\* the current user is "admin"; when false, get_description() is the
\* access-denied marker and get_ingredients() is empty, nothing raises and no
\* data of the wrapped recipe is returned; when true both return what the
\* wrapped recipe returns.
C7_ProxyGatesReads ==
  proxy.got =>
    LET owner   == CatalogRecipe[proxy.id].owner
        allowed == owner = None \/ owner = proxy.user \/ proxy.user = Some("admin")
    IN  /\ proxy.access = allowed
        /\ raised = "none"
        /\ allowed =>
             /\ proxy.description = Recipe_get_description(proxy.id)
             /\ proxy.ingredients = Recipe_get_ingredients(proxy.id)
        /\ ~allowed =>
             /\ proxy.description = AccessDenied
             /\ proxy.ingredients = <<>>
             /\ Pieces(proxy.description) \cap RecipeData(proxy.id) = {}

C7_Witness ==
  /\ proxy.got
  /\ proxy.id = "c2"
  /\ proxy.user = Some("bob")
  /\ ~proxy.access
  /\ proxy.description = AccessDenied

\* ------------------------------------------------------------------------
\* Properties of the memento
\* ------------------------------------------------------------------------
\* C8: restore(m) sets all four fields to the values they had when m was
\* taken, whatever was changed in between, in-place changes to the
\* ingredient list included.
C8_RestoreReturnsSnapshot ==
  m_last = "restore" => Fields(the_recipe, heap) = taken

\* ------------------------------------------------------------------------
\* Properties of the sort strategies
\* ------------------------------------------------------------------------
\* s comes strictly before t when case is ignored
BeforeIgnoringCase(s, t) ==
  \E i \in 1..Len(t) :
    /\ \A k \in 1..(i-1) : k <= Len(s) /\ LowerChar(s[k]) = LowerChar(t[k])
    /\ \/ i = Len(s) + 1
       \/ i <= Len(s) /\ Code(LowerChar(s[i])) < Code(LowerChar(t[i]))

\* a may stand before b under the strategy of the given class
MayPrecede(class, a, b) ==
  IF class = "SortByName"
  THEN ~BeforeIgnoringCase(Recipe[b].name, Recipe[a].name)
  ELSE \/ Recipe[a].preparation_time < Recipe[b].preparation_time
       \/ /\ Recipe[a].preparation_time = Recipe[b].preparation_time
          /\ ~BeforeIgnoringCase(Recipe[b].name, Recipe[a].name)

InOrder(class, rs) ==
  \A i \in 1..Len(rs), j \in 1..Len(rs) : i < j => MayPrecede(class, rs[i], rs[j])

Precedes(rs, a, b) ==
  \A i \in 1..Len(rs), j \in 1..Len(rs) : (rs[i] = a /\ rs[j] = b) => i < j

SortResultCorrect ==
  /\ Len(sort_output) = Len(sort_input)
  /\ \A r \in RecipeIds : Count(sort_output, r) = Count(sort_input, r)
  /\ InOrder(sort_class, sort_output)
  /\ InOrder(sort_class, sort_input) => sort_output = sort_input
  /\ sort_class = "SortByName" => Precedes(sort_output, "r1", "r3")
  /\ sort_class = "SortByPreparationTime" => Precedes(sort_output, "r4", "r5")

\* C9: each strategy's sort returns a permutation of its input ordered by the
\* strategy's key (ByName: case-insensitive name, "apple" before "Zebra";
\* ByPreparationTime: time, then case-insensitive name, Caesar(15) before
\* Carbonara(20)), leaves the input list as it was, and returns an already
\* sorted list unchanged.
C9_SortIsOrderedPermutation ==
  [][(sort_class = "none" /\ sort_class' # "none") =>
       (sort_input' = sort_input /\ SortResultCorrect')]_vars

C9_Witness ==
  /\ sort_class = "SortByPreparationTime"
  /\ sort_input = <<"r5", "r4", "r1">>
  /\ sort_output = <<"r1", "r4", "r5">>

\* ------------------------------------------------------------------------
\* Properties of the delete and edit commands
\* ------------------------------------------------------------------------
DeleteUndone == cmd.kind = "delete" /\ cmd.phase = "undone"

\* C13: DeleteRecipeCommand.execute() followed immediately by undo() restores
\* the collection to its state before execute, same membership and same
\* order, also when the recipe was not in the collection and when another
\* recipe has the same sort key.
C13_DeleteUndoRestores == DeleteUndone => recipes = cmd.pre

EditUndone == cmd.kind = "edit" /\ cmd.phase = "undone"

\* C14: EditRecipeCommand.execute() followed immediately by undo() restores
\* the collection to its state before execute, same membership and same
\* order, also when old was not in the collection while new is, and when new
\* was already in the collection.
C14_EditUndoRestores == EditUndone => recipes = cmd.pre

\* ------------------------------------------------------------------------
\* Properties of the ingredient factory
\* ------------------------------------------------------------------------
OneInstancePerName ==
  /\ \A p \in returned, q \in returned : (p[1] = q[1]) <=> (p[2] = q[2])
  /\ \A p \in returned : p[2].name = p[1] /\ factory_ingredients[p[1]] = p[2]
  /\ created = Cardinality(DOMAIN factory_ingredients)

EntriesKept ==
  \A n \in DOMAIN factory_ingredients :
    n \in DOMAIN factory_ingredients' /\ factory_ingredients'[n] = factory_ingredients[n]

\* C11: over any sequence of get_ingredient calls there is at most one
\* Ingredient instance per name: the same name returns the identical
\* instance, different names return different instances, and an entry of the
\* name-to-instance mapping is never replaced or removed.
C11_OneInstancePerName == []OneInstancePerName /\ [][EntriesKept]_vars

C11_Witness ==
  /\ Len(loaded) = 2
  /\ loaded[1].name = "Cake" /\ loaded[2].name = "Soup"
  /\ loaded[1].components[2] = loaded[2].components[1]
  /\ loaded[2].components[1] # loaded[2].components[2]
  /\ created = 3

\* ------------------------------------------------------------------------
\* Properties of the Browsing state
\* ------------------------------------------------------------------------
NothingSelected == last.arg = {} \/ IsNullRecipe(last.recipe)

\* C12: in the Browsing state an edit or delete intent issued with no current
\* selection, or with the NullRecipe sentinel as selection, constructs and
\* executes no command, leaves the collection and its order unchanged and
\* notifies no observer; the dispatcher stays in the Browsing state.
C12_NoSelectionIsNoOp ==
  /\ app_state = "BrowsingState"
  /\ (last.op \in {"handle_edit", "handle_delete"} /\ NothingSelected) =>
       /\ cmd = NoCmd
       /\ recipes = last.pre
       /\ sort_strategy = last.preStrategy
       /\ calls = <<>>

C12_Witness ==
  /\ last.op = "handle_delete"
  /\ last.arg = {}
  /\ IsNullRecipe(last.recipe)
  /\ Len(recipes) = 3
  /\ sort_strategy = "SortByPreparationTime"

====
